---- MODULE Spec2Model ----
(***************************************************************************)
(* The van-rental booking backend: the SQLite store of branches, vehicles  *)
(* and bookings (src/database), and the booking, cancellation and fleet    *)
(* handlers on top of it (src/routes).                                     *)
(*                                                                         *)
(* Representation.                                                         *)
(*  - A Python date is its day number, day 0 being 2024-08-19.  The store  *)
(*    keeps dates as ISO-8601 TEXT; a TEXT date is the tuple of its eight  *)
(*    digits (the two dashes sit at fixed places and are left out), and    *)
(*    SQL compares TEXT left to right, character by character.             *)
(*  - A Decimal is [coef, exp] (value coef * 10^exp).  A REAL column is    *)
(*    the number of hundredths it holds; str() of a REAL prints the        *)
(*    shortest decimal naming it, with at least one fractional digit.      *)
(*  - A table is the set of its rows; rows are read in rowid order.        *)
(*  - The branches table is the set of branch ids (names and addresses     *)
(*    play no part in any handler's control flow).                         *)
(***************************************************************************)
EXTENDS Integers, Sequences, FiniteSets, TLC

\* Request dates range over day 0 .. MaxDay (2024-08-19 onwards).
MaxDay == 2
\* Rows inserted after seeding, over the three tables together.
MaxInserts == 2
\* Bookings beside the sample ones in the stores the availability search is tried on.
MaxExtra == 1

VARIABLES
    branches,         \* table branches: set of branch_id
    vehicles,         \* table vehicles: set of rows
    bookings,         \* table bookings: set of rows
    sqlite_sequence,  \* AUTOINCREMENT counters, one per table
    resp,             \* the response of the last handled request
    obs,              \* observation of the last request against the store it met
    workers,          \* in-flight create_booking requests of concurrent server processes
    schedule          \* table schedule of the duration-based variant (src/main.py);
                      \* the date-range variant has no such table and leaves it empty

vars == <<branches, vehicles, bookings, sqlite_sequence, resp, obs, workers, schedule>>
store == <<branches, vehicles, bookings, sqlite_sequence>>

Days == 0..MaxDay
Categories == {"Small", "Medium", "Large"}
RequestCategories == {"Small", "Medium"}
Customers == {"Jane Doe"}
\* branch 1 has sample vehicles; branch 4 is the first one create_branch adds
BranchIds == {1, 4}
\* the days on which requests arrive
Todays == {0, 2}

-----------------------------------------------------------------------------
(* Dates and TEXT comparison *)

DayOfMonth(d) == IF d + 19 <= 31 THEN d + 19 ELSE d + 19 - 31
MonthOf(d) == IF d + 19 <= 31 THEN 8 ELSE 9

\* date.isoformat(): 'YYYY-MM-DD', zero padded
isoformat(d) ==
    <<2, 0, 2, 4, MonthOf(d) \div 10, MonthOf(d) % 10,
      DayOfMonth(d) \div 10, DayOfMonth(d) % 10>>

\* date.fromisoformat()
fromisoformat(s) ==
    LET m == s[5] * 10 + s[6]
        dd == s[7] * 10 + s[8]
    IN  IF m = 8 THEN dd - 19 ELSE dd + 31 - 19

\* SQLite's binary collation on TEXT: the first differing character decides,
\* a proper prefix sorts first.
TextLT(a, b) ==
    \/ \E i \in 1..Len(a) :
          /\ i <= Len(b)
          /\ a[i] < b[i]
          /\ \A j \in 1..(i - 1) : a[j] = b[j]
    \/ /\ Len(a) < Len(b)
       /\ \A j \in 1..Len(a) : a[j] = b[j]

TextLE(a, b) == a = b \/ TextLT(a, b)

-----------------------------------------------------------------------------
(* Decimal and REAL *)

\* Decimal(str(x)) for a REAL x
DecimalOfReal(x) ==
    IF x % 10 = 0 THEN [coef |-> x \div 10, exp |-> -1]
                  ELSE [coef |-> x, exp |-> -2]

\* float(d) for a Decimal d, in hundredths
FloatOfDecimal(d) ==
    IF d.exp = -2 THEN d.coef
    ELSE IF d.exp = -1 THEN d.coef * 10
    ELSE d.coef * 100

\* Decimal * int
DecimalTimes(d, n) == [coef |-> d.coef * n, exp |-> d.exp]

-----------------------------------------------------------------------------
(* Sample data *)

SampleDate(dd) == <<2, 0, 2, 4, 0, 8, dd \div 10, dd % 10>>

SampleBranches == {1, 2, 3}

SampleVehicles ==
    { [id |-> 1, category |-> "Small",  daily_rental_rate |-> 5500,
       number_of_seats |-> 8, branch_id |-> 1],
      [id |-> 2, category |-> "Medium", daily_rental_rate |-> 8500,
       number_of_seats |-> 2, branch_id |-> 2],
      [id |-> 3, category |-> "Large",  daily_rental_rate |-> 9500,
       number_of_seats |-> 12, branch_id |-> 1] }

SampleBookings ==
    { [booking_id |-> 1, vehicle_id |-> 1, start_date |-> SampleDate(15),
       end_date |-> SampleDate(20), customer_name |-> "John Smith",
       cost |-> 37500, branch_id |-> 1],
      [booking_id |-> 2, vehicle_id |-> 2, start_date |-> SampleDate(18),
       end_date |-> SampleDate(22), customer_name |-> "Jane Doe",
       cost |-> 22000, branch_id |-> 2],
      [booking_id |-> 3, vehicle_id |-> 3, start_date |-> SampleDate(25),
       end_date |-> SampleDate(30), customer_name |-> "Bob Johnson",
       cost |-> 47500, branch_id |-> 1] }

\* Explicit ids 1..3 in AUTOINCREMENT tables leave each counter at 3.
SampleSequence == [branches |-> 3, vehicles |-> 3, bookings |-> 3]

NoResponse == [op |-> "none", status |-> 0, detail |-> "", body |-> {}]

Idle == [pc |-> "idle"]

\* obs.unmet: the preconditions a create_booking request did not meet;
\* obs.available: the vehicle ids available to it;
\* obs.matching: the ids of the bookings a cancel_booking request matched
NoObservation == [unmet |-> {}, available |-> {}, matching |-> {}]

Init ==
    /\ branches = SampleBranches
    /\ vehicles = SampleVehicles
    /\ bookings = SampleBookings
    /\ sqlite_sequence = SampleSequence
    /\ resp = NoResponse
    /\ obs = NoObservation
    /\ workers = [w \in {1, 2} |-> Idle]
    /\ schedule = {}

-----------------------------------------------------------------------------
(* Store operations (src/database/models.py) *)

\* NextRowId of a table without AUTOINCREMENT: one more than the largest id stored
NextRowId_MaxPlusOne(table) ==
    LET ids == IF table = "bookings" THEN { b.booking_id : b \in bookings }
               ELSE IF table = "vehicles" THEN { v.id : v \in vehicles }
               ELSE branches
    IN  IF ids = {} THEN 1
        ELSE (CHOOSE i \in ids : \A j \in ids : j <= i) + 1

\* INSERT into an AUTOINCREMENT table without an explicit id
NextRowId(table) == sqlite_sequence[table] + 1

\* rows inserted since seeding
Inserted ==
    (sqlite_sequence.branches - SampleSequence.branches)
    + (sqlite_sequence.vehicles - SampleSequence.vehicles)
    + (sqlite_sequence.bookings - SampleSequence.bookings)

\* rows of the vehicles table in rowid (= id) order, as a table scan yields them
RECURSIVE RowidOrder(_)
RowidOrder(rows) ==
    IF rows = {} THEN <<>>
    ELSE LET first == CHOOSE r \in rows : \A o \in rows : r.id <= o.id
         IN  <<first>> \o RowidOrder(rows \ {first})

\* Vehicle(...) built from a row
VehicleOfRow(row) ==
    [id |-> row.id, category |-> row.category,
     daily_rental_rate |-> DecimalOfReal(row.daily_rental_rate),
     number_of_seats |-> row.number_of_seats,
     branch_id |-> row.branch_id]

\* Booking(...) built from a row
BookingOfRow(row) ==
    [booking_id |-> row.booking_id, vehicle_id |-> row.vehicle_id,
     start_date |-> fromisoformat(row.start_date),
     end_date |-> fromisoformat(row.end_date),
     customer_name |-> row.customer_name,
     cost |-> DecimalOfReal(row.cost), branch_id |-> row.branch_id]

BranchDB_get_by_id(branch_id) == branch_id \in branches

\* ConflictingBooking without its first clause: only bookings that hold the
\* window's first day, or lie inside the window, count as conflicts
ConflictingBooking_NoSpanClause(b, start_text, end_text) ==
    \/ (TextLE(b.start_date, start_text) /\ TextLE(start_text, b.end_date))
    \/ (TextLE(start_text, b.start_date) /\ TextLE(b.end_date, end_text))

\* ConflictingBooking with the first clause's parameters bound as (start, end)
ConflictingBooking_SwappedParams(b, start_text, end_text) ==
    \/ (TextLE(b.start_date, start_text) /\ TextLE(end_text, b.end_date))
    \/ (TextLE(b.start_date, start_text) /\ TextLE(start_text, b.end_date))
    \/ (TextLE(start_text, b.start_date) /\ TextLE(b.end_date, end_text))

\* ConflictingBooking with strict comparisons (end days taken as exclusive)
ConflictingBooking_Exclusive(b, start_text, end_text) ==
    \/ (TextLT(b.start_date, end_text) /\ TextLT(start_text, b.end_date))
    \/ (TextLT(b.start_date, start_text) /\ TextLT(start_text, b.end_date))
    \/ (TextLT(start_text, b.start_date) /\ TextLT(b.end_date, end_text))

\* WHERE clause of the subquery over bookings b; the parameters are bound as
\* (end, start), (start, start), (start, end)
ConflictingBooking(b, start_text, end_text) ==
    \/ (TextLE(b.start_date, end_text) /\ TextLE(start_text, b.end_date))
    \/ (TextLE(b.start_date, start_text) /\ TextLE(start_text, b.end_date))
    \/ (TextLE(start_text, b.start_date) /\ TextLE(b.end_date, end_text))

\* VehicleDB_get_available_vehicles without the branch in its WHERE clause
VehicleDB_get_available_vehicles_AnyBranch(category, start_date, end_date, branch_id) ==
    LET booked == { b.vehicle_id : b \in
                      { x \in bookings :
                          ConflictingBooking(x, isoformat(start_date), isoformat(end_date)) } }
        rows == { v \in vehicles :
                    /\ v.category = category
                    /\ v.id \notin booked }
        ordered == RowidOrder(rows)
    IN  [i \in 1..Len(ordered) |-> VehicleOfRow(ordered[i])]

VehicleDB_get_available_vehicles(category, start_date, end_date, branch_id) ==
    LET booked == { b.vehicle_id : b \in
                      { x \in bookings :
                          ConflictingBooking(x, isoformat(start_date), isoformat(end_date)) } }
        rows == { v \in vehicles :
                    /\ v.category = category
                    /\ v.branch_id = branch_id
                    /\ v.id \notin booked }
        ordered == RowidOrder(rows)
    IN  [i \in 1..Len(ordered) |-> VehicleOfRow(ordered[i])]

\* the row BookingDB.create inserts for a Booking, under the generated id
\* BookingRow writing the start date into both date columns
BookingRow_EndIsStart(booking, id) ==
    [booking_id |-> id, vehicle_id |-> booking.vehicle_id,
     start_date |-> isoformat(booking.start_date),
     end_date |-> isoformat(booking.start_date),
     customer_name |-> booking.customer_name,
     cost |-> FloatOfDecimal(booking.cost), branch_id |-> booking.branch_id]

BookingRow(booking, id) ==
    [booking_id |-> id, vehicle_id |-> booking.vehicle_id,
     start_date |-> isoformat(booking.start_date),
     end_date |-> isoformat(booking.end_date),
     customer_name |-> booking.customer_name,
     cost |-> FloatOfDecimal(booking.cost), branch_id |-> booking.branch_id]

\* MatchesCancel on the booking id alone
MatchesCancel_IdOnly(b, booking_id, start_date, customer_name) ==
    b.booking_id = booking_id

\* WHERE clause of BookingDB.delete's SELECT and DELETE
MatchesCancel(b, booking_id, start_date, customer_name) ==
    /\ b.booking_id = booking_id
    /\ b.start_date = isoformat(start_date)
    /\ b.customer_name = customer_name

-----------------------------------------------------------------------------
(* Handlers (src/routes) *)

Respond(op, status, detail, body) ==
    resp' = [op |-> op, status |-> status, detail |-> detail, body |-> body]

\* create_booking_validation rejecting a window of a single day
create_booking_validation_NoSingleDay(start_date, end_date, branch_id, today) ==
    IF ~BranchDB_get_by_id(branch_id) THEN "Branch does not exist"
    ELSE IF start_date >= end_date THEN "Start date must be before or equal to end date"
    ELSE IF start_date < today THEN "Start date cannot be in the past"
    ELSE "ok"

\* create_booking_validation checking the dates ahead of the branch
create_booking_validation_DatesFirst(start_date, end_date, branch_id, today) ==
    IF start_date > end_date THEN "Start date must be before or equal to end date"
    ELSE IF start_date < today THEN "Start date cannot be in the past"
    ELSE IF ~BranchDB_get_by_id(branch_id) THEN "Branch does not exist"
    ELSE "ok"

\* the three checks ahead of the availability query, in source order
create_booking_validation(start_date, end_date, branch_id, today) ==
    IF ~BranchDB_get_by_id(branch_id) THEN "Branch does not exist"
    ELSE IF start_date > end_date THEN "Start date must be before or equal to end date"
    ELSE IF start_date < today THEN "Start date cannot be in the past"
    ELSE "ok"

\* select_vehicle taking the last candidate
select_vehicle_Last(available_vehicles) == available_vehicles[Len(available_vehicles)]

select_vehicle(available_vehicles) == available_vehicles[1]

\* booking_cost charging the nights between the two dates
booking_cost_Nights(selected_vehicle, start_date, end_date) ==
    DecimalTimes(selected_vehicle.daily_rental_rate, end_date - start_date)

booking_cost(selected_vehicle, start_date, end_date) ==
    LET rental_days == (end_date - start_date) + 1
    IN  DecimalTimes(selected_vehicle.daily_rental_rate, rental_days)

\* create_booking that stores the booking before it looks at the dates
create_booking_InsertFirst(category, start_date, end_date, customer_name, branch_id, today) ==
    LET available_vehicles ==
            VehicleDB_get_available_vehicles(category, start_date, end_date, branch_id)
        selected_vehicle == select_vehicle(available_vehicles)
        booking == [vehicle_id |-> selected_vehicle.id,
                    start_date |-> start_date, end_date |-> end_date,
                    customer_name |-> customer_name,
                    cost |-> booking_cost(selected_vehicle, start_date, end_date),
                    branch_id |-> branch_id]
        id == NextRowId("bookings")
    IN  /\ UNCHANGED workers
        /\ IF ~BranchDB_get_by_id(branch_id)
           THEN /\ Respond("create_booking", 400, "Branch does not exist", {})
                /\ UNCHANGED store
           ELSE IF available_vehicles = <<>>
           THEN /\ Respond("create_booking", 400, "No vehicles available", {})
                /\ UNCHANGED store
           ELSE /\ Inserted < MaxInserts
                /\ bookings' = bookings \cup {BookingRow(booking, id)}
                /\ sqlite_sequence' = [sqlite_sequence EXCEPT !.bookings = id]
                /\ UNCHANGED <<branches, vehicles>>
                /\ IF start_date > end_date
                   THEN Respond("create_booking", 400,
                                "Start date must be before or equal to end date", {})
                   ELSE IF start_date < today
                   THEN Respond("create_booking", 400,
                                "Start date cannot be in the past", {})
                   ELSE Respond("create_booking", 200, "",
                                {booking @@ [booking_id |-> id]})

\* today is what date.today() returns during the call
create_booking(category, start_date, end_date, customer_name, branch_id, today) ==
    LET invalid == create_booking_validation(start_date, end_date, branch_id, today)
        available_vehicles ==
            VehicleDB_get_available_vehicles(category, start_date, end_date, branch_id)
        selected_vehicle == select_vehicle(available_vehicles)
        booking == [vehicle_id |-> selected_vehicle.id,
                    start_date |-> start_date, end_date |-> end_date,
                    customer_name |-> customer_name,
                    cost |-> booking_cost(selected_vehicle, start_date, end_date),
                    branch_id |-> branch_id]
        id == NextRowId("bookings")
    IN  /\ UNCHANGED workers
        /\ IF invalid # "ok"
           THEN /\ Respond("create_booking", 400, invalid, {})
                /\ UNCHANGED store
           ELSE IF available_vehicles = <<>>
           THEN /\ Respond("create_booking", 400, "No vehicles available", {})
                /\ UNCHANGED store
           ELSE /\ Inserted < MaxInserts
                /\ bookings' = bookings \cup {BookingRow(booking, id)}
                /\ sqlite_sequence' = [sqlite_sequence EXCEPT !.bookings = id]
                /\ Respond("create_booking", 200, "",
                           {booking @@ [booking_id |-> id]})
                /\ UNCHANGED <<branches, vehicles>>

\* cancel_booking deleting the row of the id before it looks at the other fields
cancel_booking_DeleteFirst(booking_id, start_date, customer_name) ==
    LET matched == { b \in bookings :
                       MatchesCancel(b, booking_id, start_date, customer_name) }
    IN  /\ UNCHANGED <<workers, branches, vehicles, sqlite_sequence>>
        /\ bookings' = { b \in bookings : b.booking_id # booking_id }
        /\ IF matched = {}
           THEN Respond("cancel_booking", 404,
                        "Booking not found or invalid credentials", {})
           ELSE Respond("cancel_booking", 200, "Booking cancelled successfully", {})

\* cancel_booking answering success without deleting the row
cancel_booking_KeepsRow(booking_id, start_date, customer_name) ==
    LET matched == { b \in bookings :
                       MatchesCancel(b, booking_id, start_date, customer_name) }
    IN  /\ UNCHANGED <<workers, store>>
        /\ IF matched = {}
           THEN Respond("cancel_booking", 404,
                        "Booking not found or invalid credentials", {})
           ELSE Respond("cancel_booking", 200, "Booking cancelled successfully", {})

\* cancel_booking telling an unknown booking_id from wrong credentials
cancel_booking_TellsField(booking_id, start_date, customer_name) ==
    LET matched == { b \in bookings :
                       MatchesCancel(b, booking_id, start_date, customer_name) }
    IN  /\ UNCHANGED <<workers, branches, vehicles, sqlite_sequence>>
        /\ IF matched = {}
           THEN /\ IF \E b \in bookings : b.booking_id = booking_id
                   THEN Respond("cancel_booking", 404, "Invalid credentials", {})
                   ELSE Respond("cancel_booking", 404, "Booking not found", {})
                /\ UNCHANGED bookings
           ELSE /\ bookings' = bookings \ matched
                /\ Respond("cancel_booking", 200, "Booking cancelled successfully", {})

cancel_booking(booking_id, start_date, customer_name) ==
    LET matched == { b \in bookings :
                       MatchesCancel(b, booking_id, start_date, customer_name) }
    IN  /\ UNCHANGED <<workers, branches, vehicles, sqlite_sequence>>
        /\ IF matched = {}
           THEN /\ Respond("cancel_booking", 404,
                           "Booking not found or invalid credentials", {})
                /\ UNCHANGED bookings
           ELSE /\ bookings' = bookings \ matched
                /\ Respond("cancel_booking", 200, "Booking cancelled successfully", {})

\* create_vehicle without its branch check
create_vehicle_NoBranchCheck(category, daily_rental_rate, number_of_seats, branch_id) ==
    LET id == NextRowId("vehicles")
    IN  /\ UNCHANGED <<workers, branches, bookings>>
        /\ Inserted < MaxInserts
        /\ vehicles' = vehicles \cup
              {[id |-> id, category |-> category,
                daily_rental_rate |-> FloatOfDecimal(daily_rental_rate),
                number_of_seats |-> number_of_seats,
                branch_id |-> branch_id]}
        /\ sqlite_sequence' = [sqlite_sequence EXCEPT !.vehicles = id]
        /\ Respond("create_vehicle", 200, "", {id})

create_vehicle(category, daily_rental_rate, number_of_seats, branch_id) ==
    LET id == NextRowId("vehicles")
    IN  /\ UNCHANGED <<workers, branches, bookings>>
        /\ IF ~BranchDB_get_by_id(branch_id)
           THEN /\ Respond("create_vehicle", 400, "Branch does not exist", {})
                /\ UNCHANGED <<vehicles, sqlite_sequence>>
           ELSE /\ Inserted < MaxInserts
                /\ vehicles' = vehicles \cup
                      {[id |-> id, category |-> category,
                        daily_rental_rate |-> FloatOfDecimal(daily_rental_rate),
                        number_of_seats |-> number_of_seats,
                        branch_id |-> branch_id]}
                /\ sqlite_sequence' = [sqlite_sequence EXCEPT !.vehicles = id]
                /\ Respond("create_vehicle", 200, "", {id})

create_branch ==
    LET id == NextRowId("branches")
    IN  /\ Inserted < MaxInserts
        /\ branches' = branches \cup {id}
        /\ sqlite_sequence' = [sqlite_sequence EXCEPT !.branches = id]
        /\ Respond("create_branch", 200, "", {id})
        /\ UNCHANGED <<workers, vehicles, bookings>>

-----------------------------------------------------------------------------
(* The stored data as the specification speaks of it: calendar days *)

StartDay(b) == fromisoformat(b.start_date)
EndDay(b) == fromisoformat(b.end_date)

\* the inclusive ranges [start_date, end_date] and b's range share a day
Overlaps(b, start_date, end_date) ==
    start_date <= EndDay(b) /\ end_date >= StartDay(b)

\* ids of the vehicles of the category at the branch with no booking overlapping the window
AvailableIds(category, start_date, end_date, branch_id) ==
    { v.id : v \in { x \in vehicles :
        /\ x.category = category
        /\ x.branch_id = branch_id
        /\ ~\E b \in bookings : b.vehicle_id = x.id /\ Overlaps(b, start_date, end_date) } }

\* the preconditions of create_booking that a request does not meet
Unmet(category, start_date, end_date, branch_id, today) ==
    (IF branch_id \in branches THEN {} ELSE {"branch"})
    \cup (IF start_date <= end_date THEN {} ELSE {"order"})
    \cup (IF start_date < today THEN {"past"} ELSE {})
    \cup (IF AvailableIds(category, start_date, end_date, branch_id) # {} THEN {}
          ELSE {"availability"})

\* ids of the bookings that carry the booking_id, the start day and the customer name
MatchingIds(booking_id, start_date, customer_name) ==
    { b.booking_id : b \in { x \in bookings :
        /\ x.booking_id = booking_id
        /\ StartDay(x) = start_date
        /\ x.customer_name = customer_name } }

-----------------------------------------------------------------------------
(* Requests *)

NewRates == {[coef |-> 8599, exp |-> -2]}
NewSeats == {8}
CancelDates == Days \cup {fromisoformat(SampleDate(15))}
CancelNames == {"Jane Doe", "John Smith"}
BookingIds == 1..(SampleSequence.bookings + MaxInserts)

CreateBooking ==
    \E category \in RequestCategories, start_date \in Days, end_date \in Days,
       customer_name \in Customers, branch_id \in BranchIds, today \in Todays :
        /\ create_booking(category, start_date, end_date, customer_name, branch_id, today)
        /\ UNCHANGED schedule
        /\ obs' = [unmet |-> Unmet(category, start_date, end_date, branch_id, today),
                   available |-> AvailableIds(category, start_date, end_date, branch_id),
                   matching |-> {}]

CancelBooking ==
    \E booking_id \in BookingIds, start_date \in CancelDates, customer_name \in CancelNames :
        /\ cancel_booking(booking_id, start_date, customer_name)
        /\ UNCHANGED schedule
        /\ obs' = [unmet |-> {}, available |-> {},
                   matching |-> MatchingIds(booking_id, start_date, customer_name)]

CreateVehicle ==
    \E category \in RequestCategories, rate \in NewRates, seats \in NewSeats,
       branch_id \in BranchIds :
        /\ create_vehicle(category, rate, seats, branch_id)
        /\ UNCHANGED schedule
        /\ obs' = NoObservation

CreateBranch == create_branch /\ obs' = NoObservation /\ UNCHANGED schedule

Next ==
    \/ CreateBooking
    \/ CancelBooking
    \/ CreateVehicle
    \/ CreateBranch

Spec == Init /\ [][Next]_vars

-----------------------------------------------------------------------------
(* The availability resolver on its own: find_available applied once to a    *)
(* store holding the sample data, a fourth vehicle and any few bookings.     *)

ExtraVehicle ==
    [id |-> 4, category |-> "Small", daily_rental_rate |-> 8599,
     number_of_seats |-> 8, branch_id |-> 1]

\* any booking of vehicle 1 or 4 within the request days, start_date <= end_date
ExtraBookings ==
    { [booking_id |-> 4 + (v * (MaxDay + 1) + s) * (MaxDay + 1) + e,
       vehicle_id |-> v, start_date |-> isoformat(s), end_date |-> isoformat(e),
       customer_name |-> "Jane Doe", cost |-> 0, branch_id |-> 1] :
      v \in {1, 4}, s \in Days, e \in Days }

InitResolver ==
    /\ branches = SampleBranches
    /\ vehicles = SampleVehicles \cup {ExtraVehicle}
    /\ \E extra \in SUBSET { b \in ExtraBookings :
                                fromisoformat(b.start_date) <= fromisoformat(b.end_date) } :
          /\ Cardinality(extra) <= MaxInserts
          /\ bookings = SampleBookings \cup extra
    /\ sqlite_sequence = SampleSequence
    /\ resp = NoResponse
    /\ obs = NoObservation
    /\ workers = [w \in {1, 2} |-> Idle]
    /\ schedule = {}

\* one call of VehicleDB.get_available_vehicles; the query is kept with the answer
find_available(category, start_date, end_date, branch_id) ==
    /\ resp = NoResponse
    /\ resp' = [op |-> "find_available", status |-> 200,
                detail |-> [category |-> category, start_date |-> start_date,
                            end_date |-> end_date, branch_id |-> branch_id],
                body |-> VehicleDB_get_available_vehicles(category, start_date,
                                                          end_date, branch_id)]
    /\ UNCHANGED <<store, obs, workers, schedule>>

FindAvailable ==
    \E category \in RequestCategories, start_date \in Days, end_date \in Days,
       branch_id \in BranchIds :
        find_available(category, start_date, end_date, branch_id)

NextResolver == FindAvailable

SpecResolver == InitResolver /\ [][NextResolver]_vars

-----------------------------------------------------------------------------
(* create_booking served by two workers of one van_rental.db.  Every store    *)
(* call opens, commits and closes its own connection, so a request's reads    *)
(* (BranchDB.get_by_id, VehicleDB.get_available_vehicles) and its write       *)
(* (BookingDB.create) are separate transactions; another worker's             *)
(* transaction may commit between them.                                       *)

Workers == {1, 2}

\* requests that passed their checks and have not inserted yet
Pending == Cardinality({ w \in Workers : workers[w].pc = "insert" })

\* create_booking up to the Booking it is about to store
create_booking_check(w, category, start_date, end_date, customer_name, branch_id, today) ==
    LET invalid == create_booking_validation(start_date, end_date, branch_id, today)
        available_vehicles ==
            VehicleDB_get_available_vehicles(category, start_date, end_date, branch_id)
        selected_vehicle == select_vehicle(available_vehicles)
        booking == [vehicle_id |-> selected_vehicle.id,
                    start_date |-> start_date, end_date |-> end_date,
                    customer_name |-> customer_name,
                    cost |-> booking_cost(selected_vehicle, start_date, end_date),
                    branch_id |-> branch_id]
    IN  /\ workers[w].pc = "idle"
        /\ UNCHANGED <<store, obs, schedule>>
        /\ IF invalid # "ok"
           THEN /\ Respond("create_booking", 400, invalid, {})
                /\ UNCHANGED workers
           ELSE IF Len(available_vehicles) = 0
           THEN /\ Respond("create_booking", 400, "No vehicles available", {})
                /\ UNCHANGED workers
           ELSE /\ Inserted + Pending < MaxInserts
                /\ workers' = [workers EXCEPT ![w] = [pc |-> "insert", booking |-> booking]]
                /\ UNCHANGED resp

\* BookingDB.create(booking) and the response
create_booking_insert(w) ==
    LET booking == workers[w].booking
        id == NextRowId("bookings")
    IN  /\ workers[w].pc = "insert"
        /\ bookings' = bookings \cup {BookingRow(booking, id)}
        /\ sqlite_sequence' = [sqlite_sequence EXCEPT !.bookings = id]
        /\ Respond("create_booking", 200, "", {booking @@ [booking_id |-> id]})
        /\ workers' = [workers EXCEPT ![w] = Idle]
        /\ UNCHANGED <<branches, vehicles, obs, schedule>>

CheckBooking ==
    \E w \in Workers, category \in RequestCategories, start_date \in Days,
       end_date \in Days, customer_name \in Customers, branch_id \in BranchIds,
       today \in Todays :
        create_booking_check(w, category, start_date, end_date, customer_name,
                             branch_id, today)

InsertBooking == \E w \in Workers : create_booking_insert(w)

\* cancel_booking writes in one store call
NextConc ==
    \/ CheckBooking
    \/ InsertBooking
    \/ CancelBooking

SpecConc == Init /\ [][NextConc]_vars

-----------------------------------------------------------------------------
(* Reading a booking back *)

\* BookingDB.get_by_id: the Booking of the row with the id, if any
BookingDB_get_by_id(booking_id) ==
    { BookingOfRow(row) : row \in { r \in bookings : r.booking_id = booking_id } }

\* get_booking without its raise
get_booking_NoNotFound(booking_id) ==
    /\ Respond("get_booking", 200, "", BookingDB_get_by_id(booking_id))
    /\ UNCHANGED <<store, workers>>

get_booking(booking_id) ==
    LET booking == BookingDB_get_by_id(booking_id)
    IN  /\ IF booking # {}
           THEN Respond("get_booking", 200, "", booking)
           ELSE Respond("get_booking", 404, "Booking not found", {})
        /\ UNCHANGED <<store, workers>>

-----------------------------------------------------------------------------
(* The cancellation counter: a client books Small vehicles at branch 1,      *)
(* cancels bookings and reads them back.  obs keeps each cancel_booking and   *)
(* get_booking request next to its response.                                  *)

\* the fields of a cancel_booking request that do not fit the targeted booking
\* (the one with the booking_id); a booking_id that is not stored misses as such
Mismatch(booking_id, start_date, customer_name) ==
    IF \A b \in bookings : b.booking_id # booking_id THEN {"booking_id"}
    ELSE LET b == CHOOSE x \in bookings : x.booking_id = booking_id
         IN  (IF StartDay(b) # start_date THEN {"start_date"} ELSE {})
             \cup (IF b.customer_name # customer_name THEN {"customer_name"} ELSE {})

CounterBook ==
    \E start_date \in Days, end_date \in Days, customer_name \in Customers :
        /\ create_booking("Small", start_date, end_date, customer_name, 1, 0)
        /\ UNCHANGED schedule
        /\ obs' = NoObservation

CounterCancel ==
    \E booking_id \in BookingIds, start_date \in CancelDates, customer_name \in CancelNames :
        LET request == [booking_id |-> booking_id, start_date |-> start_date,
                        customer_name |-> customer_name]
        IN  /\ cancel_booking(booking_id, start_date, customer_name)
            /\ UNCHANGED schedule
            /\ obs' = [request |-> request,
                       mismatch |-> Mismatch(booking_id, start_date, customer_name),
                       \* the response of the call before this one, when that
                       \* was the same request and fitted a stored booking
                       first |-> IF /\ resp.op = "cancel_booking"
                                    /\ obs.request = request
                                    /\ obs.mismatch = {}
                                 THEN resp ELSE NoResponse]

CounterGet ==
    \E booking_id \in BookingIds :
        /\ get_booking(booking_id)
        /\ UNCHANGED schedule
        /\ obs' = [request |-> [booking_id |-> booking_id], mismatch |-> {},
                   first |-> NoResponse]

NextCancel ==
    \/ CounterBook
    \/ CounterCancel
    \/ CounterGet

SpecCancel == Init /\ [][NextCancel]_vars

-----------------------------------------------------------------------------
(* Availability search (routes/availability.py).  An Optional field is the    *)
(* set of its values: {} is None, {x} is x.                                   *)

\* VehicleDB.get_all(): SELECT * FROM vehicles, Vehicle objects in rowid order
VehicleDB_get_all ==
    LET rows == RowidOrder(vehicles)
    IN  [i \in 1..Len(rows) |-> VehicleOfRow(rows[i])]

\* Python truth of an Optional[str] and of an Optional[int]
TruthyStr(optional) == optional # {} /\ optional # {""}
TruthyInt(optional) == optional # {} /\ optional # {0}

TheValue(optional) == CHOOSE x \in optional : TRUE

\* vehicle_available satisfied by any vehicle of the category at the branch
vehicle_available_AnyOfCategory(vehicle, start_date, end_date) ==
    Len(VehicleDB_get_available_vehicles(vehicle.category, start_date,
                                         end_date, vehicle.branch_id)) > 0

\* "if any(av.id == vehicle.id for av in vehicle_available)", vehicle_available
\* being get_available_vehicles for the vehicle's own category and branch
vehicle_available(vehicle, start_date, end_date) ==
    LET found == VehicleDB_get_available_vehicles(vehicle.category, start_date,
                                                  end_date, vehicle.branch_id)
    IN  \E i \in 1..Len(found) : found[i].id = vehicle.id

\* search_candidates without the branch-only case: branch falls to "all vehicles"
search_candidates_NoBranchCase(category, branch_id) ==
    IF TruthyStr(category) /\ ~TruthyInt(branch_id)
    THEN SelectSeq(VehicleDB_get_all, LAMBDA v : v.category = TheValue(category))
    ELSE VehicleDB_get_all

\* the vehicles the three partial-filter branches loop over
search_candidates(category, branch_id) ==
    IF TruthyStr(category)
    THEN SelectSeq(VehicleDB_get_all, LAMBDA v : v.category = TheValue(category))
    ELSE IF TruthyInt(branch_id)
    THEN SelectSeq(VehicleDB_get_all, LAMBDA v : v.branch_id = TheValue(branch_id))
    ELSE VehicleDB_get_all

\* search_cost charging the nights between the two dates
search_cost_Nights(vehicle, start_date, end_date) ==
    DecimalTimes(vehicle.daily_rental_rate, end_date - start_date)

\* rental_days and total_cost of the response
search_cost(vehicle, start_date, end_date) ==
    LET rental_days == (end_date - start_date) + 1
    IN  DecimalTimes(vehicle.daily_rental_rate, rental_days)

AvailableVehicle(vehicle, start_date, end_date) ==
    [vehicle_id |-> vehicle.id, category |-> vehicle.category,
     daily_rental_rate |-> vehicle.daily_rental_rate,
     number_of_seats |-> vehicle.number_of_seats,
     branch_id |-> vehicle.branch_id,
     total_cost |-> search_cost(vehicle, start_date, end_date)]

\* search_validation that lets a start date in the past through
search_validation_NoPastCheck(start_date, end_date, branch_id, today) ==
    IF start_date > end_date THEN "Start date must be before or equal to end date"
    ELSE IF branch_id # {} /\ ~BranchDB_get_by_id(TheValue(branch_id))
    THEN "Branch with ID " \o ToString(TheValue(branch_id)) \o " does not exist"
    ELSE "ok"

\* search_validation that lets an unknown branch through
search_validation_NoBranchCheck(start_date, end_date, branch_id, today) ==
    IF start_date > end_date THEN "Start date must be before or equal to end date"
    ELSE IF start_date < today THEN "Start date cannot be in the past"
    ELSE "ok"

\* the three checks ahead of the search
search_validation(start_date, end_date, branch_id, today) ==
    IF start_date > end_date THEN "Start date must be before or equal to end date"
    ELSE IF start_date < today THEN "Start date cannot be in the past"
    ELSE IF branch_id # {} /\ ~BranchDB_get_by_id(TheValue(branch_id))
    THEN "Branch with ID " \o ToString(TheValue(branch_id)) \o " does not exist"
    ELSE "ok"

\* the response of search_available_vehicles: [status, detail, body]
search_available_vehicles(start_date, end_date, category, branch_id, today) ==
    LET invalid == search_validation(start_date, end_date, branch_id, today)
        available_vehicles ==
            IF TruthyStr(category) /\ TruthyInt(branch_id)
            THEN VehicleDB_get_available_vehicles(TheValue(category), start_date,
                                                  end_date, TheValue(branch_id))
            ELSE SelectSeq(search_candidates(category, branch_id),
                           LAMBDA v : vehicle_available(v, start_date, end_date))
        results == [i \in 1..Len(available_vehicles) |->
                       AvailableVehicle(available_vehicles[i], start_date, end_date)]
    IN  IF invalid # "ok"
        THEN [status |-> 400, detail |-> invalid, body |-> <<>>]
        ELSE [status |-> 200, detail |-> "", body |-> results]

search_availability(start_date, end_date, category, branch_id, today) ==
    LET r == search_available_vehicles(start_date, end_date, category, branch_id, today)
    IN  /\ Respond("search_availability", r.status, r.detail, r.body)
        /\ UNCHANGED <<store, workers>>

-----------------------------------------------------------------------------
(* search_availability on its own: one search of a store holding the sample  *)
(* data, a second Small vehicle at branch 1, one at branch 2, and a few       *)
(* further bookings.                                                          *)

OtherBranchVehicle ==
    [id |-> 5, category |-> "Small", daily_rental_rate |-> 6000,
     number_of_seats |-> 8, branch_id |-> 2]

\* no filter, the empty string, a category of the fleet, a category of no vehicle
SearchCategories == {{}, {""}, {"Small"}, {"Van"}}
\* no filter, 0, two branches with vehicles, a branch that does not exist
SearchBranches == {{}, {0}, {1}, {2}, {4}}

InitSearch ==
    /\ branches = SampleBranches
    /\ vehicles = SampleVehicles \cup {ExtraVehicle, OtherBranchVehicle}
    /\ \E extra \in SUBSET { b \in ExtraBookings :
                                fromisoformat(b.start_date) <= fromisoformat(b.end_date) } :
          /\ Cardinality(extra) <= MaxExtra
          /\ bookings = SampleBookings \cup extra
    /\ sqlite_sequence = [branches |-> 3, vehicles |-> 5, bookings |-> 3]
    /\ resp = NoResponse
    /\ obs = NoObservation
    /\ workers = [w \in {1, 2} |-> Idle]
    /\ schedule = {}

\* one search; the request is kept next to the response
SearchOnce ==
    \E start_date \in Days, end_date \in Days, category \in SearchCategories,
       branch_id \in SearchBranches, today \in Todays :
        /\ resp = NoResponse
        /\ search_availability(start_date, end_date, category, branch_id, today)
        /\ UNCHANGED schedule
        /\ obs' = [request |-> [start_date |-> start_date, end_date |-> end_date,
                                category |-> category, branch_id |-> branch_id,
                                today |-> today]]

NextSearch == SearchOnce

SpecSearch == InitSearch /\ [][NextSearch]_vars

-----------------------------------------------------------------------------
(* Book, cancel, read back: a client at branch 1 books Small vehicles,        *)
(* cancels bookings and reads them back.  obs follows the last booking made:  *)
(* what create_booking returned, what get_available_vehicles gave for its     *)
(* window just before, and whether it has been cancelled since.               *)

NoTrip == [stage |-> "none"]

\* stage: "booked", then "cancelled"; untouched: no other booking was cancelled
\* since; got: the status of get_booking of the booking's id after its
\* cancellation (0: not asked)
TripOf(booking, category, before) ==
    [stage |-> "booked", booking |-> booking, category |-> category,
     before |-> before, untouched |-> TRUE, got |-> 0]

TripBook ==
    \E start_date \in Days, end_date \in Days, customer_name \in Customers :
        /\ create_booking("Small", start_date, end_date, customer_name, 1, 0)
        /\ UNCHANGED schedule
        /\ obs' = IF resp'.status = 200
                  THEN TripOf(CHOOSE b \in resp'.body : TRUE, "Small",
                              VehicleDB_get_available_vehicles("Small", start_date,
                                                               end_date, 1))
                  ELSE obs

TripCancel ==
    \E booking_id \in BookingIds, start_date \in CancelDates, customer_name \in CancelNames :
        /\ cancel_booking(booking_id, start_date, customer_name)
        /\ UNCHANGED schedule
        /\ obs' = IF obs.stage = "none" \/ resp'.status # 200 THEN obs
                  ELSE IF obs.stage = "booked" /\ booking_id = obs.booking.booking_id
                  THEN [obs EXCEPT !.stage = "cancelled"]
                  ELSE [obs EXCEPT !.untouched = FALSE]

TripGet ==
    \E booking_id \in BookingIds :
        /\ get_booking(booking_id)
        /\ UNCHANGED schedule
        /\ obs' = IF obs.stage = "cancelled" /\ booking_id = obs.booking.booking_id
                  THEN [obs EXCEPT !.got = resp'.status]
                  ELSE obs

NextTrip ==
    \/ TripBook
    \/ TripCancel
    \/ TripGet

InitTrip ==
    /\ branches = SampleBranches
    /\ vehicles = SampleVehicles
    /\ bookings = SampleBookings
    /\ sqlite_sequence = SampleSequence
    /\ resp = NoResponse
    /\ obs = NoTrip
    /\ workers = [w \in {1, 2} |-> Idle]
    /\ schedule = {}

SpecTrip == InitTrip /\ [][NextTrip]_vars

-----------------------------------------------------------------------------
(* Administration (routes/admin.py, database/database.py) *)

EmptySequence == [branches |-> 0, vehicles |-> 0, bookings |-> 0]

\* the four parts of the store, as one value
StoreNow ==
    [branches |-> branches, vehicles |-> vehicles, bookings |-> bookings,
     sqlite_sequence |-> sqlite_sequence]

\* delete_data(): the tables dropped and created again, their counters deleted
delete_data ==
    [branches |-> {}, vehicles |-> {}, bookings |-> {},
     sqlite_sequence |-> EmptySequence]

Max(a, b) == IF a >= b THEN a ELSE b

\* the three executemany of insert_sample_data on the store s.  Every row comes
\* with its id: a taken id fails the PRIMARY KEY (and nothing is committed), a
\* free one raises the table's counter to it.
sample_inserts(s) ==
    IF \/ s.branches \cap SampleBranches # {}
       \/ \E v \in s.vehicles, x \in SampleVehicles : v.id = x.id
       \/ \E b \in s.bookings, x \in SampleBookings : b.booking_id = x.booking_id
    THEN [ok |-> FALSE, store |-> s]
    ELSE [ok |-> TRUE,
          store |-> [branches |-> s.branches \cup SampleBranches,
                     vehicles |-> s.vehicles \cup SampleVehicles,
                     bookings |-> s.bookings \cup SampleBookings,
                     sqlite_sequence |->
                         [t \in DOMAIN s.sqlite_sequence |->
                             Max(s.sqlite_sequence[t], SampleSequence[t])]]]

\* insert_sample_data that does not empty the store first
insert_sample_data_NoDelete == sample_inserts(StoreNow)

insert_sample_data == sample_inserts(delete_data)

SetStore(s) ==
    /\ branches' = s.branches
    /\ vehicles' = s.vehicles
    /\ bookings' = s.bookings
    /\ sqlite_sequence' = s.sqlite_sequence

delete_all_data ==
    /\ SetStore(delete_data)
    /\ Respond("delete_all_data", 200, "All data deleted successfully", {})
    /\ UNCHANGED workers

reset_database ==
    LET result == insert_sample_data
    IN  /\ UNCHANGED workers
        /\ IF result.ok
           THEN /\ SetStore(result.store)
                /\ Respond("reset_database", 200,
                           "Database reset successfully with sample data", {})
           ELSE /\ UNCHANGED store
                /\ Respond("reset_database", 500, "Failed to reset database", {})

-----------------------------------------------------------------------------
(* The fleet under administration: vehicles are added with any rate and any   *)
(* number of seats, branches are opened, Small and Large vehicles are booked  *)
(* for a day at branch 1 or 2, and the store is wiped or reset.  obs keeps each      *)
(* request with the store it met.                                             *)

FleetRates == {[coef |-> -100, exp |-> -2], [coef |-> 8599, exp |-> -2]}
FleetSeats == {0, 8}

\* rows inserted since the store was last seeded or emptied (a counter below the
\* seeded one tells an emptied store)
RowsSince ==
    LET rows == sqlite_sequence.branches + sqlite_sequence.vehicles
                + sqlite_sequence.bookings
        seeded == SampleSequence.branches + SampleSequence.vehicles
                  + SampleSequence.bookings
    IN  IF rows >= seeded THEN rows - seeded ELSE rows

AdminVehicle ==
    \E rate \in FleetRates, seats \in FleetSeats, branch_id \in BranchIds :
        /\ RowsSince < MaxInserts
        /\ create_vehicle("Small", rate, seats, branch_id)
        /\ UNCHANGED schedule
        /\ obs' = [request |-> [category |-> "Small", daily_rental_rate |-> rate,
                                number_of_seats |-> seats, branch_id |-> branch_id],
                   before |-> StoreNow]

AdminBranch ==
    /\ RowsSince < MaxInserts
    /\ create_branch
    /\ UNCHANGED schedule
    /\ obs' = [request |-> [op |-> "create_branch"], before |-> StoreNow]

\* bookings of a single day
AdminBook ==
    \E category \in {"Small", "Large"}, start_date \in Days, branch_id \in {1, 2} :
      LET end_date == start_date
      IN
        /\ RowsSince < MaxInserts
        /\ create_booking(category, start_date, end_date, "Jane Doe", branch_id, 0)
        /\ UNCHANGED schedule
        /\ obs' = [request |-> [category |-> category, start_date |-> start_date,
                                end_date |-> end_date, branch_id |-> branch_id],
                   before |-> StoreNow]

AdminReset ==
    /\ reset_database
    /\ UNCHANGED schedule
    /\ obs' = [request |-> [op |-> "reset_database"], before |-> StoreNow]

AdminWipe ==
    /\ delete_all_data
    /\ UNCHANGED schedule
    /\ obs' = [request |-> [op |-> "delete_all_data"], before |-> StoreNow]

NextAdmin ==
    \/ AdminVehicle
    \/ AdminBranch
    \/ AdminBook
    \/ AdminReset
    \/ AdminWipe

SpecAdmin == Init /\ [][NextAdmin]_vars

-----------------------------------------------------------------------------
(* The duration-based variant (src/main.py).  A booking request names a       *)
(* start date and a number of days; vehicles and bookings carry no branch;    *)
(* the schedule table holds one row per vehicle and occupied day, primary     *)
(* key (date, vehicle_id), booking_id NULL (the empty set) on maintenance     *)
(* days.  ScheduleDB, the seeding of the schedule table and the cancellation  *)
(* of this variant follow the specification's sections 3, 4 and 6.            *)

\* duration is any int: no days, one day, two days
Durations == {0, 1, 2}
ScheduleCategories == {"Small", "Large"}

\* a bookings row of this variant
DurationBookingRow(b) ==
    [booking_id |-> b.booking_id, vehicle_id |-> b.vehicle_id,
     start_date |-> b.start_date, end_date |-> b.end_date,
     customer_name |-> b.customer_name, cost |-> b.cost]

\* Schedule(date, vehicle_id, status="booked", booking_id) as a row
schedule_entry_NoBookingId(schedule_date, vehicle_id, booking_id) ==
    [date |-> isoformat(schedule_date), vehicle_id |-> vehicle_id,
     status |-> "booked", booking_id |-> {}]

schedule_entry(schedule_date, vehicle_id, booking_id) ==
    [date |-> isoformat(schedule_date), vehicle_id |-> vehicle_id,
     status |-> "booked", booking_id |-> {booking_id}]

\* the seeded schedule: the days of the sample bookings
SampleSchedule ==
    UNION { { schedule_entry(d, b.vehicle_id, b.booking_id) :
                d \in fromisoformat(b.start_date)..fromisoformat(b.end_date) } :
            b \in SampleBookings }

\* a day in the workshop for vehicle 3
MaintenanceRows ==
    { [date |-> isoformat(1), vehicle_id |-> 3, status |-> "maintenance",
       booking_id |-> {}] }

\* schedule_dates starting the day after the start date
schedule_dates_FromNext(start_date, duration) ==
    [day \in 1..duration |-> start_date + day]

\* the dates the loop over range(duration) visits, in order
schedule_dates(start_date, duration) ==
    [day \in 1..duration |-> start_date + (day - 1)]

\* ScheduleDB.search_available_vehicles: the vehicles of the category with no
\* schedule row on any date of [start_date, start_date + duration), lowest id
\* first, each with total_cost = daily_rental_rate * duration
ScheduleDB_search_available_vehicles(category, start_date, duration) ==
    LET window == { isoformat(start_date + day) : day \in 0..(duration - 1) }
        rows == { v \in vehicles :
                    /\ v.category = category
                    /\ ~\E r \in schedule : r.vehicle_id = v.id /\ r.date \in window }
        ordered == RowidOrder(rows)
    IN  [i \in 1..Len(ordered) |->
            [vehicle_id |-> ordered[i].id, category |-> ordered[i].category,
             daily_rental_rate |-> ordered[i].daily_rental_rate,
             number_of_seats |-> ordered[i].number_of_seats,
             total_cost |-> ordered[i].daily_rental_rate * duration]]

\* ScheduleDB.create on the table rows: the primary key (date, vehicle_id)
\* refuses a second row for a vehicle and day
ScheduleDB_create(rows, entry) ==
    IF \E r \in rows : r.date = entry.date /\ r.vehicle_id = entry.vehicle_id
    THEN [ok |-> FALSE, rows |-> rows]
    ELSE [ok |-> TRUE, rows |-> rows \cup {entry}]

\* the loop of create_booking over the dates from position i on; an insert
\* that raises ends it, the rows written so far stay
RECURSIVE schedule_loop(_, _, _, _, _)
schedule_loop(rows, dates, i, vehicle_id, booking_id) ==
    IF i > Len(dates) THEN [ok |-> TRUE, rows |-> rows]
    ELSE LET made == ScheduleDB_create(rows, schedule_entry(dates[i], vehicle_id, booking_id))
         IN  IF made.ok THEN schedule_loop(made.rows, dates, i + 1, vehicle_id, booking_id)
             ELSE made

\* the Booking create_booking builds for the selected vehicle
main_booking(selected_vehicle, start_date, duration, customer_name) ==
    [vehicle_id |-> selected_vehicle.vehicle_id,
     start_date |-> start_date, end_date |-> start_date + (duration - 1),
     customer_name |-> customer_name,
     cost |-> DecimalOfReal(selected_vehicle.total_cost)]

\* BookingDB.create in this variant: the row under the generated id
main_BookingRow(booking, id) ==
    [booking_id |-> id, vehicle_id |-> booking.vehicle_id,
     start_date |-> isoformat(booking.start_date),
     end_date |-> isoformat(booking.end_date),
     customer_name |-> booking.customer_name,
     cost |-> FloatOfDecimal(booking.cost)]

NoVehicles(category, duration) ==
    "No vehicles of category '" \o category \o "' available for "
    \o ToString(duration) \o " days"

\* create_booking of src/main.py, from request to response
main_create_booking(category, start_date, duration, customer_name) ==
    LET available_vehicles ==
            ScheduleDB_search_available_vehicles(category, start_date, duration)
        selected_vehicle == available_vehicles[1]
        booking == main_booking(selected_vehicle, start_date, duration, customer_name)
        id == NextRowId("bookings")
        written == schedule_loop(schedule, schedule_dates(start_date, duration), 1,
                                 selected_vehicle.vehicle_id, id)
    IN  /\ UNCHANGED workers
        /\ IF available_vehicles = <<>>
           THEN /\ Respond("create_booking", 400, NoVehicles(category, duration), {})
                /\ UNCHANGED <<store, schedule>>
           ELSE /\ Inserted < MaxInserts
                /\ bookings' = bookings \cup {main_BookingRow(booking, id)}
                /\ sqlite_sequence' = [sqlite_sequence EXCEPT !.bookings = id]
                /\ schedule' = written.rows
                /\ UNCHANGED <<branches, vehicles>>
                /\ IF written.ok
                   THEN Respond("create_booking", 200, "",
                                {booking @@ [booking_id |-> id]})
                   ELSE Respond("create_booking", 500, "Internal Server Error", {})

\* BookingDB.delete of this variant: the matching booking and, in the same
\* transaction, the schedule rows that carry its booking_id
main_cancel_booking(booking_id, start_date, customer_name) ==
    LET matched == { b \in bookings :
                       MatchesCancel(b, booking_id, start_date, customer_name) }
    IN  /\ UNCHANGED <<workers, branches, vehicles, sqlite_sequence>>
        /\ IF matched = {}
           THEN /\ Respond("cancel_booking", 404,
                           "Booking not found or invalid credentials", {})
                /\ UNCHANGED <<bookings, schedule>>
           ELSE /\ bookings' = bookings \ matched
                /\ schedule' = { r \in schedule : r.booking_id # {booking_id} }
                /\ Respond("cancel_booking", 200, "Booking cancelled successfully", {})

InitSchedule ==
    /\ branches = SampleBranches
    /\ vehicles = SampleVehicles
    /\ bookings = { DurationBookingRow(b) : b \in SampleBookings }
    /\ sqlite_sequence = SampleSequence
    /\ resp = NoResponse
    /\ obs = NoObservation
    /\ workers = [w \in {1, 2} |-> Idle]
    /\ schedule = SampleSchedule \cup MaintenanceRows

\* obs keeps the request that was granted and the bookings rows it removed
NoRequest == [request |-> [op |-> "none"], cancelled |-> {}]

\* booking requests; the ones for no days all start on day 0
ScheduleRequests ==
    { r \in [category : ScheduleCategories, start_date : Days, duration : Durations] :
        r.duration = 0 => r.start_date = 0 }

ScheduleBook ==
    \E request \in ScheduleRequests, customer_name \in Customers :
      LET category == request.category
          start_date == request.start_date
          duration == request.duration
      IN
        /\ main_create_booking(category, start_date, duration, customer_name)
        /\ obs' = IF resp'.status # 200 THEN NoRequest
                   ELSE [request |-> [category |-> category, start_date |-> start_date,
                                      duration |-> duration],
                         cancelled |-> {}]

\* cancellations of Jane Doe's bookings, and the one of sample booking 1
ScheduleCancels ==
    { [booking_id |-> i, start_date |-> d, customer_name |-> "Jane Doe"] :
        i \in BookingIds, d \in Days }
    \cup { [booking_id |-> 1, start_date |-> fromisoformat(SampleDate(15)),
            customer_name |-> "John Smith"] }

ScheduleCancel ==
    \E request \in ScheduleCancels :
      LET booking_id == request.booking_id
          start_date == request.start_date
          customer_name == request.customer_name
      IN
        /\ main_cancel_booking(booking_id, start_date, customer_name)
        /\ obs' = IF resp'.status # 200 THEN NoRequest
                   ELSE [request |-> [booking_id |-> booking_id],
                         cancelled |-> { b \in bookings :
                             MatchesCancel(b, booking_id, start_date, customer_name) }]

NextSchedule ==
    \/ ScheduleBook
    \/ ScheduleCancel

SpecSchedule == InitSchedule /\ [][NextSchedule]_vars

-----------------------------------------------------------------------------
(* The duration-based create_booking one store call at a time.  BookingDB     *)
(* .create and every ScheduleDB.create open a connection, write and commit;   *)
(* between two of them the other server process may run.                      *)

\* requests that found a vehicle and have not stored their Booking yet
SchedulePending == Cardinality({ w \in Workers : workers[w].pc = "create" })

\* create_booking up to the Booking it is about to store
main_create_booking_search(w, category, start_date, duration, customer_name) ==
    LET available_vehicles ==
            ScheduleDB_search_available_vehicles(category, start_date, duration)
        selected_vehicle == available_vehicles[1]
        booking == main_booking(selected_vehicle, start_date, duration, customer_name)
    IN  /\ workers[w].pc = "idle"
        /\ UNCHANGED <<store, schedule>>
        /\ IF available_vehicles = <<>>
           THEN /\ Respond("create_booking", 400, NoVehicles(category, duration), {})
                /\ UNCHANGED workers
           ELSE /\ Inserted + SchedulePending < MaxInserts
                /\ workers' = [workers EXCEPT ![w] =
                                  [pc |-> "create", booking |-> booking,
                                   duration |-> duration]]
                /\ UNCHANGED resp

\* BookingDB.create(booking): the row is committed; with no day to schedule the
\* handler returns
main_create_booking_create(w) ==
    LET booking == workers[w].booking
        duration == workers[w].duration
        id == NextRowId("bookings")
        created_booking == booking @@ [booking_id |-> id]
    IN  /\ workers[w].pc = "create"
        /\ bookings' = bookings \cup {main_BookingRow(booking, id)}
        /\ sqlite_sequence' = [sqlite_sequence EXCEPT !.bookings = id]
        /\ UNCHANGED <<branches, vehicles, schedule>>
        /\ IF Len(schedule_dates(booking.start_date, duration)) = 0
           THEN /\ Respond("create_booking", 200, "", {created_booking})
                /\ workers' = [workers EXCEPT ![w] = Idle]
           ELSE /\ workers' = [workers EXCEPT ![w] =
                                  [pc |-> "schedule", booking |-> created_booking,
                                   duration |-> duration, day |-> 1]]
                /\ UNCHANGED resp

\* one pass of the loop: ScheduleDB.create for the next date; an insert that
\* raises ends the handler with the rows written so far in place
main_create_booking_schedule(w) ==
    LET created_booking == workers[w].booking
        dates == schedule_dates(created_booking.start_date, workers[w].duration)
        day == workers[w].day
        made == ScheduleDB_create(schedule,
                    schedule_entry(dates[day], created_booking.vehicle_id,
                                   created_booking.booking_id))
    IN  /\ workers[w].pc = "schedule"
        /\ schedule' = made.rows
        /\ UNCHANGED store
        /\ IF ~made.ok
           THEN /\ Respond("create_booking", 500, "Internal Server Error", {})
                /\ workers' = [workers EXCEPT ![w] = Idle]
           ELSE IF day = Len(dates)
           THEN /\ Respond("create_booking", 200, "", {created_booking})
                /\ workers' = [workers EXCEPT ![w] = Idle]
           ELSE /\ workers' = [workers EXCEPT ![w].day = day + 1]
                /\ UNCHANGED resp

SearchBooking ==
    \E w \in Workers, request \in ScheduleRequests, customer_name \in Customers :
        /\ main_create_booking_search(w, request.category, request.start_date,
                                      request.duration, customer_name)
        /\ UNCHANGED obs

StoreBooking ==
    \E w \in Workers :
        /\ main_create_booking_create(w)
        /\ UNCHANGED obs

\* obs keeps the booking of a request that ended in an error
StoreScheduleRow ==
    \E w \in Workers :
        /\ main_create_booking_schedule(w)
        /\ obs' = IF resp'.status = 500
                  THEN [request |-> [op |-> "create_booking"],
                        cancelled |-> {}, failed |-> {workers[w].booking}]
                  ELSE obs

NextScheduleConc ==
    \/ SearchBooking
    \/ StoreBooking
    \/ StoreScheduleRow

SpecScheduleConc == InitSchedule /\ [][NextScheduleConc]_vars

-----------------------------------------------------------------------------
(* Booking ids over time: Small and Large vehicles are booked for a day at    *)
(* branch 1 and bookings are cancelled; no wipe, no reset.  obs.assigned      *)
(* keeps every bookings row that was ever stored.                             *)

InitIds ==
    /\ branches = SampleBranches
    /\ vehicles = SampleVehicles
    /\ bookings = SampleBookings
    /\ sqlite_sequence = SampleSequence
    /\ resp = NoResponse
    /\ obs = [assigned |-> SampleBookings]
    /\ workers = [w \in {1, 2} |-> Idle]
    /\ schedule = {}

IdsBook ==
    \E category \in {"Small", "Large"}, start_date \in Days, customer_name \in Customers :
        /\ create_booking(category, start_date, start_date, customer_name, 1, 0)
        /\ UNCHANGED schedule
        /\ obs' = [assigned |-> obs.assigned \cup bookings']

IdsCancel ==
    \E booking_id \in BookingIds, start_date \in Days, customer_name \in Customers :
        /\ cancel_booking(booking_id, start_date, customer_name)
        /\ UNCHANGED schedule
        /\ UNCHANGED obs

NextIds ==
    \/ IdsBook
    \/ IdsCancel

SpecIds == InitIds /\ [][NextIds]_vars

-----------------------------------------------------------------------------
(* Properties *)

\* C1: no two stored bookings of the same vehicle have overlapping inclusive
\* [start_date, end_date] ranges, in any state reached from the sample data by
\* complete create_booking, cancel_booking, create_vehicle and create_branch calls.
NoOverlap ==
    \A b1 \in bookings : \A b2 \in bookings :
        (b1.booking_id # b2.booking_id /\ b1.vehicle_id = b2.vehicle_id)
            => (StartDay(b1) > EndDay(b2) \/ StartDay(b2) > EndDay(b1))

\* a vehicle carries its sample booking and a booking made by create_booking
NoOverlap_Witness ==
    \E b1 \in bookings : \E b2 \in bookings :
        /\ b1 \in SampleBookings
        /\ b2.booking_id > SampleSequence.bookings
        /\ b1.vehicle_id = b2.vehicle_id

\* C2: the availability check and the insert of a create_booking are one atomic
\* step: two requests whose check and insert steps interleave never both store
\* a booking of the same vehicle for overlapping windows.
AtomicCheckAndInsert ==
    \A b1 \in bookings : \A b2 \in bookings :
        ( /\ b1.booking_id > SampleSequence.bookings
          /\ b2.booking_id > b1.booking_id
          /\ b1.vehicle_id = b2.vehicle_id )
            => ~Overlaps(b1, StartDay(b2), EndDay(b2))

\* the ids a find_available answer lists
AnswerIds == { resp.body[i].id : i \in 1..Len(resp.body) }

\* C3: for a store whose bookings have start_date <= end_date and a query with
\* start_date <= end_date, find_available returns exactly (once each) the vehicles
\* of the category at the branch that have no booking b with
\* start_date <= b.end_date and end_date >= b.start_date.
ResolverExact ==
    (resp.op = "find_available" /\ resp.detail.start_date <= resp.detail.end_date)
        => /\ AnswerIds = AvailableIds(resp.detail.category, resp.detail.start_date,
                                       resp.detail.end_date, resp.detail.branch_id)
           /\ Len(resp.body) = Cardinality(AnswerIds)

\* an answer that lists one vehicle of the category at the branch and leaves out
\* another, which has a booking that starts inside the window and ends after it
ResolverExact_Witness ==
    /\ resp.op = "find_available"
    /\ resp.detail.start_date < resp.detail.end_date
    /\ AnswerIds = {4}
    /\ \E b \in bookings :
          /\ b.vehicle_id = 1
          /\ resp.detail.start_date < StartDay(b)
          /\ resp.detail.end_date < EndDay(b)
          /\ StartDay(b) <= resp.detail.end_date

\* C4: ranges are inclusive at the day boundary: a vehicle with a booking [s, e]
\* is in no answer for a window that starts on day e or shares any day with
\* [s, e], and is in the answer for a window that starts on day e+1 when it
\* matches the filter and no other booking of it shares a day with the window.
InclusiveBoundary ==
    (resp.op = "find_available" /\ resp.detail.start_date <= resp.detail.end_date)
        => \A b \in bookings :
             LET q == resp.detail
                 window == q.start_date .. q.end_date
                 v == CHOOSE x \in vehicles : x.id = b.vehicle_id
                 others == { o \in bookings :
                               o.vehicle_id = b.vehicle_id /\ o.booking_id # b.booking_id }
             IN  /\ (q.start_date = EndDay(b)) => b.vehicle_id \notin AnswerIds
                 /\ (window \cap (StartDay(b) .. EndDay(b)) # {})
                        => b.vehicle_id \notin AnswerIds
                 /\ ( /\ q.start_date = EndDay(b) + 1
                      /\ v.category = q.category
                      /\ v.branch_id = q.branch_id
                      /\ \A o \in others : window \cap (StartDay(o) .. EndDay(o)) = {} )
                        => b.vehicle_id \in AnswerIds

\* vehicle 1, booked 2024-08-15 to 2024-08-20, is listed for a window that
\* starts on 2024-08-21
InclusiveBoundary_Witness ==
    /\ resp.op = "find_available"
    /\ isoformat(resp.detail.start_date) = SampleDate(21)
    /\ resp.detail.start_date <= resp.detail.end_date
    /\ 1 \in AnswerIds
    /\ \E b \in bookings : b.vehicle_id = 1 /\ b.end_date = SampleDate(20)

\* C5: a successful create_booking books the lowest id among the vehicles
\* available for the requested category, branch and window at that moment;
\* the choice is a function of the store and the request.
LowestIdSelected ==
    (resp.op = "create_booking" /\ resp.status = 200)
        => \E b \in resp.body :
             /\ b.vehicle_id \in obs.available
             /\ \A id \in obs.available : b.vehicle_id <= id
             /\ \E row \in bookings :
                   row.booking_id = b.booking_id /\ row.vehicle_id = b.vehicle_id

\* vehicle 1 was booked while vehicle 4, of the same category and branch, was
\* available for the same window
LowestIdSelected_Witness ==
    /\ resp.op = "create_booking"
    /\ resp.status = 200
    /\ obs.available = {1, 4}
    /\ \E b \in resp.body : b.vehicle_id = 1

\* C6: create_booking returns a Booking iff the branch exists, start_date <=
\* end_date, start_date is not before the current date and a vehicle of the
\* category at the branch is available for the window; otherwise BadRequest.
CreateBookingIff ==
    (resp.op = "create_booking")
        => /\ (resp.status = 200 /\ resp.body # {}) <=> (obs.unmet = {})
           /\ (obs.unmet # {}) => (resp.status = 400 /\ resp.body = {})

\* a booking of a single day was accepted
CreateBookingIff_Witness ==
    /\ resp.op = "create_booking"
    /\ resp.status = 200
    /\ obs.unmet = {}
    /\ \E b \in resp.body : b.start_date = b.end_date

\* C7: a rejected create_booking reports the first unmet precondition in the
\* order: branch exists, start_date <= end_date, start_date not in the past,
\* availability.
FirstFailureWins ==
    (resp.op = "create_booking" /\ resp.status = 400)
        => resp.detail =
             IF "branch" \in obs.unmet THEN "Branch does not exist"
             ELSE IF "order" \in obs.unmet
                  THEN "Start date must be before or equal to end date"
             ELSE IF "past" \in obs.unmet THEN "Start date cannot be in the past"
             ELSE "No vehicles available"

\* a request that met none of the four preconditions was answered with the
\* branch's reason
FirstFailureWins_Witness ==
    /\ resp.op = "create_booking"
    /\ resp.status = 400
    /\ obs.unmet = {"branch", "order", "past", "availability"}
    /\ resp.detail = "Branch does not exist"

\* C8: a rejected create_booking leaves branches, vehicles, bookings and the id
\* counters as they were.
RejectionLeavesStore ==
    [][(resp'.op = "create_booking" /\ resp'.status # 200) => UNCHANGED store]_vars

\* a request was turned down for its dates alone, after an earlier booking had
\* been stored
RejectionLeavesStore_Witness ==
    /\ resp.op = "create_booking"
    /\ resp.status = 400
    /\ obs.unmet = {"order"}
    /\ \E b \in bookings : b.booking_id > SampleSequence.bookings

\* C9: the booking a successful create_booking returns and stores costs the
\* selected vehicle's daily_rental_rate times ((end_date - start_date) + 1),
\* to the cent.
CostExact ==
    (resp.op = "create_booking" /\ resp.status = 200)
        => \E b \in resp.body : \E row \in bookings : \E v \in vehicles :
             /\ row.booking_id = b.booking_id
             /\ row.vehicle_id = v.id
             /\ b.vehicle_id = v.id
             /\ row.cost = v.daily_rental_rate * ((b.end_date - b.start_date) + 1)
             /\ row.cost = v.daily_rental_rate * ((EndDay(row) - StartDay(row)) + 1)
             /\ FloatOfDecimal(b.cost) = row.cost

\* two days on vehicle 4, at 85.99 a day, were booked for 171.98
CostExact_Witness ==
    /\ resp.op = "create_booking"
    /\ resp.status = 200
    /\ \E b \in resp.body : \E row \in bookings :
          /\ row.booking_id = b.booking_id
          /\ b.vehicle_id = 4
          /\ b.end_date = b.start_date + 1
          /\ row.cost = 17198

\* C10: cancel_booking succeeds iff a stored booking matches booking_id,
\* start_date and customer_name together; on success that one booking is
\* removed and every other booking, vehicle and branch stays.
CancelIffMatch ==
    [][(resp'.op = "cancel_booking")
         => /\ (resp'.status = 200) <=> (obs'.matching # {})
            /\ (obs'.matching # {})
                  => /\ Cardinality(obs'.matching) = 1
                     /\ bookings' = { b \in bookings : b.booking_id \notin obs'.matching }
                     /\ bookings' # bookings
            /\ UNCHANGED <<branches, vehicles>>]_vars

\* the sample booking 1 was cancelled while two other bookings stayed
CancelIffMatch_Witness ==
    /\ resp.op = "cancel_booking"
    /\ resp.status = 200
    /\ obs.matching = {1}
    /\ Cardinality(bookings) >= 2

\* C11: a cancel_booking in which booking_id, start_date or customer_name does
\* not fit (an unknown booking_id included) fails and leaves the store as it
\* was; get_booking of the targeted id gives what it gave before the call.
CancelMismatchKeepsBooking ==
    [][(resp'.op = "cancel_booking" /\ obs'.mismatch # {})
         => /\ resp'.status = 404
            /\ UNCHANGED store
            /\ \A id \in BookingIds :
                  (id = obs'.request.booking_id)
                     => BookingDB_get_by_id(id)' = BookingDB_get_by_id(id)]_vars

\* a cancellation with the right booking_id and start_date and another
\* customer's name was turned down, and the booking is still there
CancelMismatchKeepsBooking_Witness ==
    /\ resp.op = "cancel_booking"
    /\ resp.status = 404
    /\ obs.mismatch = {"customer_name"}
    /\ BookingDB_get_by_id(obs.request.booking_id) # {}

\* C12: the same correct cancel_booking request made twice in a row succeeds the
\* first time and is answered NotFound the second time, and the second call
\* leaves the store as the first left it.
CancelTwice ==
    [][(resp'.op = "cancel_booking" /\ obs'.first.op = "cancel_booking")
         => /\ obs'.first.status = 200
            /\ resp'.status = 404
            /\ resp'.detail = "Booking not found or invalid credentials"
            /\ UNCHANGED store]_vars

\* a booking made by create_booking was cancelled, and cancelled again
CancelTwice_Witness ==
    /\ resp.op = "cancel_booking"
    /\ obs.first.op = "cancel_booking"
    /\ obs.request.booking_id > SampleSequence.bookings
    /\ resp.status = 404

\* C14: a failed cancel_booking is answered the same way whichever field did
\* not fit: an unknown booking_id, a wrong start_date or a wrong customer_name.
CancelFailureUniform ==
    (resp.op = "cancel_booking" /\ obs.mismatch # {})
        => resp = [op |-> "cancel_booking", status |-> 404,
                   detail |-> "Booking not found or invalid credentials",
                   body |-> {}]

\* only the start_date was wrong
CancelFailureUniform_Witness ==
    /\ resp.op = "cancel_booking"
    /\ resp.status = 404
    /\ obs.mismatch = {"start_date"}

\* the vehicle ids a search_availability response lists
IdsOf(body) == { body[i].vehicle_id : i \in 1..Len(body) }

\* a filter of a search request counts as supplied when it is given and, for a
\* category, is not the empty string
CategoryGiven(request) == request.category # {} /\ request.category # {""}
BranchGiven(request) == request.branch_id # {}

\* ids of the vehicles that fit the supplied filters and have no booking
\* overlapping the window
FreeIds(request) ==
    { v.id : v \in { x \in vehicles :
        /\ CategoryGiven(request) => x.category \in request.category
        /\ BranchGiven(request) => x.branch_id \in request.branch_id
        /\ \A b \in bookings :
              b.vehicle_id = x.id => ~Overlaps(b, request.start_date, request.end_date) } }

\* C16: for an existing branch and a category, the search with both filters
\* returns the vehicles common to the search by the category alone and the
\* search by the branch alone, for the same window.
FilterIntersection ==
    ( /\ resp.op = "search_availability"
      /\ resp.status = 200
      /\ CategoryGiven(obs.request)
      /\ BranchGiven(obs.request) )
        => LET q == obs.request
               byCategory == search_available_vehicles(q.start_date, q.end_date,
                                                       q.category, {}, q.today)
               byBranch == search_available_vehicles(q.start_date, q.end_date,
                                                     {}, q.branch_id, q.today)
           IN  /\ byCategory.status = 200
               /\ byBranch.status = 200
               /\ IdsOf(resp.body) = IdsOf(byCategory.body) \cap IdsOf(byBranch.body)

\* Small at branch 1 gave vehicle 4 alone, while Small alone also gives vehicle 5
\* of branch 2 and branch 1 alone also gives the Large vehicle 3
FilterIntersection_Witness ==
    /\ resp.op = "search_availability"
    /\ resp.status = 200
    /\ obs.request.category = {"Small"}
    /\ obs.request.branch_id = {1}
    /\ IdsOf(resp.body) = {4}
    /\ LET q == obs.request
       IN  /\ 5 \in IdsOf(search_available_vehicles(q.start_date, q.end_date,
                                                    q.category, {}, q.today).body)
           /\ 3 \in IdsOf(search_available_vehicles(q.start_date, q.end_date,
                                                    {}, q.branch_id, q.today).body)

SearchRejects ==
    [][(resp'.op = "search_availability" /\ resp.op = "none")
         => LET q == obs'.request
            IN  ( \/ q.start_date > q.end_date
                  \/ q.start_date < q.today
                  \/ (q.branch_id # {} /\ q.branch_id \cap branches = {}) )
                   => /\ resp'.status = 400
                      /\ resp'.detail # ""
                      /\ resp'.body = <<>>
                      /\ UNCHANGED store]_vars

\* a search whose only fault is a start date before today
SearchRejects_Witness ==
    /\ resp.op = "search_availability"
    /\ resp.status = 400
    /\ obs.request.start_date < obs.request.today
    /\ obs.request.start_date <= obs.request.end_date
    /\ obs.request.branch_id = {}

\* C20: every vehicle a search_availability lists carries total_cost equal to
\* its daily_rental_rate times ((end_date - start_date) + 1); for a window of
\* one day that is the daily rate.
SearchCostExact ==
    (resp.op = "search_availability" /\ resp.status = 200)
        => \A i \in 1..Len(resp.body) :
             LET a == resp.body[i]
                 q == obs.request
                 row == CHOOSE v \in vehicles : v.id = a.vehicle_id
             IN  /\ FloatOfDecimal(a.total_cost)
                      = row.daily_rental_rate * ((q.end_date - q.start_date) + 1)
                 /\ FloatOfDecimal(a.daily_rental_rate) = row.daily_rental_rate
                 /\ (q.start_date = q.end_date)
                       => FloatOfDecimal(a.total_cost) = FloatOfDecimal(a.daily_rental_rate)

\* vehicle 4, at 85.99 a day, listed for two days at 171.98
SearchCostExact_Witness ==
    /\ resp.op = "search_availability"
    /\ resp.status = 200
    /\ obs.request.end_date = obs.request.start_date + 1
    /\ \E i \in 1..Len(resp.body) :
          /\ resp.body[i].vehicle_id = 4
          /\ FloatOfDecimal(resp.body[i].total_cost) = 17198

\* the category of the request is that of no vehicle
CategoryUnknown(request) ==
    CategoryGiven(request) /\ \A v \in vehicles : v.category \notin request.category

\* the branch_id of the request is that of no branch
BranchUnknown(request) ==
    BranchGiven(request) /\ request.branch_id \cap branches = {}

DatesValid(request) ==
    request.start_date <= request.end_date /\ request.start_date >= request.today

\* C18 as stated: an availability query whose category is that of no vehicle,
\* or whose branch_id is that of no branch, returns an empty sequence and
\* never an error.
UnknownFilterEmpty ==
    ( /\ resp.op = "search_availability"
      /\ DatesValid(obs.request)
      /\ (CategoryUnknown(obs.request) \/ BranchUnknown(obs.request)) )
        => (resp.status = 200 /\ resp.body = <<>>)

\* C18, amended: get_available_vehicles returns an empty sequence for a category
\* of no vehicle and for a branch_id of no branch; search_availability with
\* valid dates returns an empty sequence for a category of no vehicle when its
\* branch_id is absent or exists, and answers BadRequest for a branch_id of no
\* branch.
UnknownFilterOutcome ==
    ( /\ resp.op = "search_availability"
      /\ DatesValid(obs.request)
      /\ (CategoryUnknown(obs.request) \/ BranchUnknown(obs.request)) )
        => LET q == obs.request
           IN  /\ BranchUnknown(q) => (resp.status = 400 /\ resp.body = <<>>)
               /\ ~BranchUnknown(q) => (resp.status = 200 /\ resp.body = <<>>)
               /\ (CategoryGiven(q) /\ BranchGiven(q))
                     => VehicleDB_get_available_vehicles(
                            TheValue(q.category), q.start_date, q.end_date,
                            TheValue(q.branch_id)) = <<>>

\* a search for Small vehicles at branch 4, which does not exist, was turned
\* down, while get_available_vehicles of the same query is empty
UnknownFilterOutcome_Witness ==
    /\ resp.op = "search_availability"
    /\ DatesValid(obs.request)
    /\ obs.request.category = {"Small"}
    /\ obs.request.branch_id = {4}
    /\ resp.status = 400
    /\ VehicleDB_get_available_vehicles("Small", obs.request.start_date,
                                        obs.request.end_date, 4) = <<>>

\* the vehicle ids of a get_available_vehicles answer
VehicleIds(answer) == { answer[i].id : i \in 1..Len(answer) }

\* C13: after create_booking returned B and cancel_booking was called with B's
\* booking_id, start_date and customer_name, get_booking of B's id is NotFound,
\* and get_available_vehicles for B's category, branch and window returns B's
\* vehicle again: the answer it gave before B was made.
RoundTrip ==
    (obs.stage = "cancelled")
        => LET B == obs.booking
               now == VehicleDB_get_available_vehicles(obs.category, B.start_date,
                                                       B.end_date, B.branch_id)
           IN  /\ obs.got \in {0, 404}
               /\ BookingDB_get_by_id(B.booking_id) = {}
               /\ obs.untouched
                     => (now = obs.before /\ B.vehicle_id \in VehicleIds(now))

\* a booking was made and cancelled, get_booking answered 404, and its vehicle
\* is available for its window as before
RoundTrip_Witness ==
    /\ obs.stage = "cancelled"
    /\ obs.got = 404
    /\ obs.untouched
    /\ obs.booking.vehicle_id \in
          VehicleIds(VehicleDB_get_available_vehicles(
              obs.category, obs.booking.start_date, obs.booking.end_date,
              obs.booking.branch_id))

\* C15: from the moment create_booking has returned a booking of vehicle v for
\* window W, and until that booking is cancelled, no availability query whose
\* window shares a day with W lists v: neither get_available_vehicles nor
\* search_availability under any combination of filters.
NoStaleAvailability ==
    (obs.stage = "booked")
        => LET B == obs.booking
           IN  \A s \in Days : \A e \in Days :
                 (s <= e /\ s <= B.end_date /\ e >= B.start_date)
                    => /\ B.vehicle_id \notin VehicleIds(
                              VehicleDB_get_available_vehicles(obs.category, s, e,
                                                               B.branch_id))
                       /\ \A category \in {{}, {obs.category}} :
                          \A branch_id \in {{}, {B.branch_id}} :
                             LET r == search_available_vehicles(s, e, category,
                                                                branch_id, 0)
                             IN  r.status = 200 /\ B.vehicle_id \notin IdsOf(r.body)

\* create_booking has just returned a booking of more than one day for a
\* vehicle that was available, and a window on its last day no longer lists it
NoStaleAvailability_Witness ==
    /\ obs.stage = "booked"
    /\ resp.op = "create_booking"
    /\ obs.booking.start_date < obs.booking.end_date
    /\ obs.booking.vehicle_id \in VehicleIds(obs.before)
    /\ obs.booking.vehicle_id \notin VehicleIds(
          VehicleDB_get_available_vehicles(obs.category, obs.booking.end_date,
                                           obs.booking.end_date, obs.booking.branch_id))

\* C21: create_vehicle naming a branch that does not exist is answered 400 and
\* adds no vehicle; every stored vehicle's branch_id is the id of a stored branch.
VehicleBranchChecked ==
    /\ \A v \in vehicles : v.branch_id \in branches
    /\ (resp.op = "create_vehicle" /\ obs.request.branch_id \notin obs.before.branches)
          => /\ resp.status = 400
             /\ vehicles = obs.before.vehicles
             /\ sqlite_sequence = obs.before.sqlite_sequence

\* a vehicle was refused for its branch, by a store that holds branches
VehicleBranchChecked_Witness ==
    /\ resp.op = "create_vehicle"
    /\ resp.status = 400
    /\ obs.request.branch_id \notin obs.before.branches
    /\ obs.before.branches # {}
    /\ \E v \in vehicles : v.id > 3

\* the schedule rows that stand for booking b: one per day of its range
RowsOfBooking(b) ==
    { [date |-> isoformat(d), vehicle_id |-> b.vehicle_id, status |-> "booked",
       booking_id |-> {b.booking_id}] : d \in StartDay(b)..EndDay(b) }

EndNotBeforeStart ==
    /\ \A b \in bookings : StartDay(b) <= EndDay(b)
    /\ (resp.op = "create_booking" /\ resp.status = 200) =>
          \A booking \in resp.body :
              \E b \in bookings :
                  /\ b.booking_id = booking.booking_id
                  /\ StartDay(b) = obs.request.start_date
                  /\ EndDay(b) = obs.request.start_date + obs.request.duration - 1

\* C23: in the duration-based variant the Booking insert and the schedule
\* inserts of one create_booking are one transaction: whenever a booking row is
\* stored all its schedule rows are stored too, and after a request whose
\* schedule insert failed neither its booking row nor a schedule row of it is left.
BookingWithSchedule ==
    /\ \A b \in bookings : RowsOfBooking(b) \subseteq schedule
    /\ (resp.op = "create_booking" /\ resp.status = 500) =>
          \A booking \in obs.failed :
              /\ \A b \in bookings : b.booking_id # booking.booking_id
              /\ \A r \in schedule : r.booking_id # {booking.booking_id}

\* C26: every stored booking's cost is the daily_rental_rate of its vehicle
\* times its rental days, (end_date - start_date) in days + 1, in every state,
\* the one right after seeding or a reset included.
StoredCostExact ==
    \A b \in bookings :
        \E v \in vehicles :
            /\ v.id = b.vehicle_id
            /\ b.cost = v.daily_rental_rate * ((EndDay(b) - StartDay(b)) + 1)

\* C27: every stored vehicle has daily_rental_rate >= 0 and number_of_seats > 0,
\* and no stored booking has a negative cost.
VehicleFieldsValid ==
    /\ \A v \in vehicles : v.daily_rental_rate >= 0 /\ v.number_of_seats > 0
    /\ \A b \in bookings : b.cost >= 0

\* C28: reset_database, from any state, succeeds and leaves exactly the sample
\* store; a second reset right after changes nothing; the vehicle or booking
\* created right after a reset gets id 4.
ResetRestoresSample ==
    [][ /\ resp'.op = "reset_database" =>
              /\ resp'.status = 200
              /\ branches' = SampleBranches
              /\ vehicles' = SampleVehicles
              /\ bookings' = SampleBookings
        /\ (resp.op = "reset_database" /\ resp'.op = "reset_database") =>
              store' = store
        /\ (resp.op = "reset_database" /\ resp'.op = "create_vehicle"
            /\ resp'.status = 200) => resp'.body = {4}
        /\ (resp.op = "reset_database" /\ resp'.op = "create_booking"
            /\ resp'.status = 200) => \A b \in resp'.body : b.booking_id = 4
      ]_vars

\* a reset met a store holding a vehicle and a booking made by requests
ResetRestoresSample_Witness ==
    /\ resp.op = "reset_database"
    /\ \E v \in obs.before.vehicles : v.id > 3
    /\ \E b \in obs.before.bookings : b.booking_id > 3
    /\ vehicles = SampleVehicles

\* C29: every stored booking names a stored branch and a stored vehicle of that
\* branch, and the vehicle of a booking just stored by create_booking is of the
\* category and at the branch the request named.
BookingFitsVehicle ==
    /\ \A b \in bookings :
          /\ b.branch_id \in branches
          /\ \E v \in vehicles : v.id = b.vehicle_id /\ v.branch_id = b.branch_id
    /\ (resp.op = "create_booking" /\ resp.status = 200) =>
          \A booking \in resp.body :
              \E b \in bookings, v \in vehicles :
                  /\ b.booking_id = booking.booking_id
                  /\ b.branch_id = obs.request.branch_id
                  /\ v.id = b.vehicle_id
                  /\ v.category = obs.request.category
                  /\ v.branch_id = obs.request.branch_id

\* a Large vehicle was booked at branch 1 while a vehicle added by a request is stored
BookingFitsVehicle_Witness ==
    /\ resp.op = "create_booking"
    /\ resp.status = 200
    /\ obs.request.category = "Large"
    /\ \E b \in bookings : b.booking_id > 3 /\ b.vehicle_id = 3
    /\ \E v \in vehicles : v.id > 3

\* C30: stored bookings have distinct booking_ids; without a wipe or a reset, a
\* create_booking never hands out a booking_id that a booking had before, stored
\* or cancelled; so the booking a cancel_booking removes is the only one that
\* ever had its id.
BookingIdsNeverReused ==
    [][ /\ \A b1 \in bookings', b2 \in bookings' :
              b1.booking_id = b2.booking_id => b1 = b2
        /\ (resp'.op = "create_booking" /\ resp'.status = 200) =>
              \A booking \in resp'.body :
                  \A old \in obs.assigned : old.booking_id # booking.booking_id
        /\ (resp'.op = "cancel_booking" /\ resp'.status = 200) =>
              \A gone \in bookings \ bookings' :
                  \A old \in obs.assigned : old.booking_id = gone.booking_id => old = gone
      ]_vars

\* a booking was stored after the booking with the id before its own was cancelled
BookingIdsNeverReused_Witness ==
    /\ resp.op = "create_booking"
    /\ resp.status = 200
    /\ \E booking \in resp.body :
          /\ booking.booking_id > 4
          /\ \A b \in bookings : b.booking_id # booking.booking_id - 1
          /\ \E old \in obs.assigned : old.booking_id = booking.booking_id - 1

====
